---- MODULE Spec2Model ----
(***************************************************************************)
(* Model of kube's dynamic resource identity / capability code             *)
(* (kube/src/api/dynamic.rs) and of the WebSocket upgrade verification     *)
(* (kube-client/src/client/upgrade.rs).                                    *)
(*                                                                         *)
(* Strings are TLA+ strings; a character is a string of length one.        *)
(* Every behaviour is one use of the API: a call made from the initial     *)
(* state with arguments drawn from bounded sets, followed by the calls     *)
(* that can be chained on the value it returned.                           *)
(***************************************************************************)
EXTENDS Naturals, Sequences, FiniteSets, TLC

VARIABLES
    call,       \* the last API call made, with its arguments
    resource,   \* the ApiResource in hand (Option)
    object,     \* the DynamicObject in hand (Option)
    pc,         \* from_apiresourcelist: "idle", "running", "done", "panicked"
    stack,      \* from_apiresourcelist: the activation frames of the recursion
    extras,     \* from_apiresourcelist: the value returned (Option)
    verified,   \* verify_response: the Result returned (Option)
    ws,         \* the WsStream handle
    wsLog       \* the calls made on the WsStream handle, with what they returned

vars == <<call, resource, object, pc, stack, extras, verified, ws, wsLog>>

----------------------------------------------------------------------------
(* Bounds of the model *)

\* most entries of a discovery document
MaxEntries == 3
\* most mutator calls chained on one DynamicObject
MaxChain == 2
\* most supports_closing calls made on one WsStream
MaxCalls == 2

----------------------------------------------------------------------------
(* Option and string primitives of the standard library *)

None == [some |-> FALSE]
Some(x) == [some |-> TRUE, v |-> x]

\* unwrap_or_else
UnwrapOr(o, d) == IF o.some THEN o.v ELSE d

CharAt(s, i) == SubSeq(s, i, i)

\* is_empty
IsEmpty(s) == Len(s) = 0

\* str::find(char): index of the first occurrence, 0 when there is none
FindChar(s, c) ==
    IF \E i \in 1..Len(s) : CharAt(s, i) = c
    THEN CHOOSE i \in 1..Len(s) :
            /\ CharAt(s, i) = c
            /\ \A j \in 1..(i - 1) : CharAt(s, j) # c
    ELSE 0

\* mutant: str::split(c), which ignores the limit n
RECURSIVE split_all(_, _, _)
split_all(n, s, c) ==
    IF FindChar(s, c) = 0 THEN <<s>>
    ELSE <<SubSeq(s, 1, FindChar(s, c) - 1)>>
            \o split_all(n, SubSeq(s, FindChar(s, c) + 1, Len(s)), c)

\* str::splitn(n, c).collect(): at most n parts, the last one the unsplit rest
RECURSIVE splitn(_, _, _)
splitn(n, s, c) ==
    IF n = 0 THEN <<>>
    ELSE IF n = 1 \/ FindChar(s, c) = 0 THEN <<s>>
    ELSE <<SubSeq(s, 1, FindChar(s, c) - 1)>>
            \o splitn(n - 1, SubSeq(s, FindChar(s, c) + 1, Len(s)), c)

\* str::strip_prefix
strip_prefix(s, prefix) ==
    IF Len(s) >= Len(prefix) /\ SubSeq(s, 1, Len(prefix)) = prefix
    THEN Some(SubSeq(s, Len(prefix) + 1, Len(s)))
    ELSE None

AsciiUpper == "ABCDEFGHIJKLMNOPQRSTUVWXYZ"
AsciiLower == "abcdefghijklmnopqrstuvwxyz"

\* u8::to_ascii_lowercase on one character
LowerChar(c) ==
    IF \E i \in 1..Len(AsciiUpper) : CharAt(AsciiUpper, i) = c
    THEN CharAt(AsciiLower, CHOOSE i \in 1..Len(AsciiUpper) : CharAt(AsciiUpper, i) = c)
    ELSE c

\* str::to_ascii_lowercase
RECURSIVE to_ascii_lowercase(_)
to_ascii_lowercase(s) ==
    IF Len(s) = 0 THEN ""
    ELSE LowerChar(Head(s)) \o to_ascii_lowercase(Tail(s))

\* str::eq_ignore_ascii_case
eq_ignore_ascii_case(a, b) ==
    /\ Len(a) = Len(b)
    /\ \A i \in 1..Len(a) : LowerChar(CharAt(a, i)) = LowerChar(CharAt(b, i))

EndsWith(s, suffix) ==
    /\ Len(s) >= Len(suffix)
    /\ SubSeq(s, Len(s) - Len(suffix) + 1, Len(s)) = suffix

----------------------------------------------------------------------------
(* ApiResource: dynamic.rs lines 8-99 *)

\* the value a constructor cannot produce: the unreachable!() arm
Unreachable == [panic |-> "unreachable"]

\* format!("{}/{}", group, version)
GroupSlashVersion(group, version) == group \o "/" \o version

\* mutant: api_version is computed from the defaults, not from the overridden fields
from_apiresource_default_api_version(ar, group_version) ==
    LET gvsplit == splitn(2, group_version, "/")
        default_group == IF Len(gvsplit) = 2 THEN gvsplit[1] ELSE ""
        default_version == IF Len(gvsplit) = 2 THEN gvsplit[2] ELSE gvsplit[1]
    IN  [ group |-> UnwrapOr(ar.group, default_group),
          version |-> UnwrapOr(ar.version, default_version),
          kind |-> ar.kind,
          api_version |-> IF IsEmpty(default_group) THEN default_version
                          ELSE GroupSlashVersion(default_group, default_version),
          plural |-> ar.name ]

from_apiresource(ar, group_version) ==
    LET gvsplit == splitn(2, group_version, "/")
    IN  IF Len(gvsplit) \notin {1, 2} THEN Unreachable
        ELSE
        LET default_group == IF Len(gvsplit) = 2 THEN gvsplit[1] ELSE ""
            default_version == IF Len(gvsplit) = 2 THEN gvsplit[2] ELSE gvsplit[1]
            group == UnwrapOr(ar.group, default_group)
            version == UnwrapOr(ar.version, default_version)
        IN  [ group |-> group,
              version |-> version,
              kind |-> ar.kind,
              api_version |-> IF IsEmpty(group) THEN version
                              ELSE GroupSlashVersion(group, version),
              plural |-> ar.name ]

\* the Resource accessors of DynamicObject, which read the ApiResource given
Resource_group(dt) == dt.group
Resource_version(dt) == dt.version
Resource_kind(dt) == dt.kind
Resource_api_version(dt) == dt.api_version
Resource_plural(dt) == dt.plural

\* ApiResource::erase::<DynamicObject>
erase(dt) ==
    [ group |-> Resource_group(dt),
      version |-> Resource_version(dt),
      api_version |-> Resource_api_version(dt),
      kind |-> Resource_kind(dt),
      plural |-> Resource_plural(dt) ]

IsVowel(c) == c \in {"a", "e", "i", "o", "u"}

\* the English pluralisation heuristic of api::metadata
to_plural(word) ==
    IF \/ EndsWith(word, "s") \/ EndsWith(word, "x") \/ EndsWith(word, "z")
       \/ EndsWith(word, "ch") \/ EndsWith(word, "sh")
    THEN word \o "es"
    ELSE IF /\ Len(word) >= 2
            /\ EndsWith(word, "y")
            /\ ~IsVowel(CharAt(word, Len(word) - 1))
    THEN SubSeq(word, 1, Len(word) - 1) \o "ies"
    ELSE word \o "s"

from_gvk(gvk) ==
    [ group |-> gvk.group,
      version |-> gvk.version,
      api_version |-> IF gvk.group = "" THEN gvk.version
                      ELSE GroupSlashVersion(gvk.group, gvk.version),
      kind |-> gvk.kind,
      plural |-> to_plural(to_ascii_lowercase(gvk.kind)) ]

----------------------------------------------------------------------------
(* DynamicObject: dynamic.rs lines 105-144 *)

\* ObjectMeta::default(): every field unset
ObjectMetaDefault ==
    [ annotations |-> None, creation_timestamp |-> None,
      deletion_grace_period_seconds |-> None, deletion_timestamp |-> None,
      finalizers |-> None, generate_name |-> None, generation |-> None,
      labels |-> None, managed_fields |-> None, name |-> None,
      namespace |-> None, owner_references |-> None,
      resource_version |-> None, self_link |-> None, uid |-> None ]

\* serde_json::Value::default()
JsonNull == "null"

DynamicObject_new(name, res) ==
    [ types |-> Some([api_version |-> res.api_version, kind |-> res.kind]),
      metadata |-> [ObjectMetaDefault EXCEPT !.name = Some(name)],
      data |-> JsonNull ]

DynamicObject_data(self, data) == [self EXCEPT !.data = data]

\* mutant: ObjectMeta { namespace: Some(ns), ..Default::default() }
DynamicObject_within_fresh_meta(self, ns) ==
    [self EXCEPT !.metadata = [ObjectMetaDefault EXCEPT !.namespace = Some(ns)]]

DynamicObject_within(self, ns) == [self EXCEPT !.metadata.namespace = Some(ns)]

----------------------------------------------------------------------------
(* Operations and ApiResourceExtras: dynamic.rs lines 180-286 *)

Operations_empty ==
    [ create |-> FALSE, get |-> FALSE, list |-> FALSE, watch |-> FALSE,
      delete |-> FALSE, delete_collection |-> FALSE, update |-> FALSE,
      patch |-> FALSE, other |-> <<>> ]

\* mutant: the "deletecollection" arm sets delete
MatchVerb_deletecollection_as_delete(operations, verb) ==
    CASE verb = "create" -> [operations EXCEPT !.create = TRUE]
      [] verb = "get" -> [operations EXCEPT !.get = TRUE]
      [] verb = "list" -> [operations EXCEPT !.list = TRUE]
      [] verb = "watch" -> [operations EXCEPT !.watch = TRUE]
      [] verb = "delete" -> [operations EXCEPT !.delete = TRUE]
      [] verb = "deletecollection" -> [operations EXCEPT !.delete = TRUE]
      [] verb = "update" -> [operations EXCEPT !.update = TRUE]
      [] verb = "patch" -> [operations EXCEPT !.patch = TRUE]
      [] OTHER -> [operations EXCEPT !.other = Append(@, verb)]

\* one iteration of the loop over ar.verbs: the match on verb.as_str()
MatchVerb(operations, verb) ==
    CASE verb = "create" -> [operations EXCEPT !.create = TRUE]
      [] verb = "get" -> [operations EXCEPT !.get = TRUE]
      [] verb = "list" -> [operations EXCEPT !.list = TRUE]
      [] verb = "watch" -> [operations EXCEPT !.watch = TRUE]
      [] verb = "delete" -> [operations EXCEPT !.delete = TRUE]
      [] verb = "deletecollection" -> [operations EXCEPT !.delete_collection = TRUE]
      [] verb = "update" -> [operations EXCEPT !.update = TRUE]
      [] verb = "patch" -> [operations EXCEPT !.patch = TRUE]
      [] OTHER -> [operations EXCEPT !.other = Append(@, verb)]

\* for verb in &ar.verbs { ... }
RECURSIVE ForVerbs(_, _)
ForVerbs(operations, verbs) ==
    IF verbs = <<>> THEN operations
    ELSE ForVerbs(MatchVerb(operations, Head(verbs)), Tail(verbs))

\* list.resources.iter().find(|r| r.name == name)
FindResource(list, name) ==
    IF \E i \in 1..Len(list.resources) : list.resources[i].name = name
    THEN Some(list.resources[
            CHOOSE i \in 1..Len(list.resources) :
                /\ list.resources[i].name = name
                /\ \A j \in 1..(i - 1) : list.resources[j].name # name ])
    ELSE None

ScopeOf(ar) == IF ar.namespaced THEN "Namespaced" ELSE "Cluster"

\* mutant: the prefix lacks its '/'
subresource_name_prefix_no_slash(name) == name

\* format!("{}/", name)
subresource_name_prefix(name) == name \o "/"

\* the ApiResource pushed for a matching entry: from_apiresource, plural overridden
SubApiResource(list, res, subresource_name) ==
    [from_apiresource(res, list.group_version) EXCEPT !.plural = subresource_name]

\* mutant: the recursive call looks up the stripped name
RecursiveName_local(res, subresource_name) == subresource_name

\* the name the recursive call looks up: &res.name
RecursiveName(res, subresource_name) == res.name

\* The activation of from_apiresourcelist(list, name) once its entry ar is found:
\* scope and operations are computed, the loop over list.resources is at entry i,
\* api_resource is the one built for entry i while its recursive call runs.
Frame(name, ar) ==
    [ name |-> name,
      scope |-> ScopeOf(ar),
      operations |-> ForVerbs(Operations_empty, ar.verbs),
      subresources |-> <<>>,
      i |-> 1,
      api_resource |-> None ]

\* the ApiResourceExtras a finished activation returns
ExtrasOf(frame) ==
    [ scope |-> frame.scope,
      subresources |-> frame.subresources,
      operations |-> frame.operations ]

----------------------------------------------------------------------------
(* WebSocket upgrade: upgrade.rs *)

WS_PROTOCOL_V4 == "v4.channel.k8s.io"
WS_PROTOCOL_V5 == "v5.channel.k8s.io"
WS_PROTOCOLS == "v5.channel.k8s.io,v4.channel.k8s.io"

\* StatusCode::SWITCHING_PROTOCOLS
SWITCHING_PROTOCOLS == 101

Ok(x) == [tag |-> "Ok", v |-> x]
Err(kind) == [tag |-> "Err", kind |-> kind]
ProtocolSwitch(status) == [tag |-> "Err", kind |-> "ProtocolSwitch", status |-> status]

\* mutant: the tokens are matched ignoring ASCII case
SubProto_from_str_ignore_case(s) ==
    CASE eq_ignore_ascii_case(s, WS_PROTOCOL_V4) -> Ok("V4")
      [] eq_ignore_ascii_case(s, WS_PROTOCOL_V5) -> Ok("V5")
      [] OTHER -> Err("invalid subprotocol")

SubProto_from_str(s) ==
    CASE s = WS_PROTOCOL_V4 -> Ok("V4")
      [] s = WS_PROTOCOL_V5 -> Ok("V5")
      [] OTHER -> Err("invalid subprotocol")

\* A header value is its bytes: text when they are all visible ASCII, and
\* otherwise (opaque) text followed by a byte that is not.
HeaderValue(text) == [text |-> text, opaque |-> FALSE]
OpaqueValue(text) == [text |-> text, opaque |-> TRUE]

\* HeaderValue::to_str
to_str(h) == IF h.opaque THEN None ELSE Some(h.text)

\* HeaderValue == String: equality of the bytes
HeaderEq(h, s) == ~h.opaque /\ h.text = s

\* HeaderMap::get: the first value stored under the name
headers_get(headers, name) == headers[name]

\* ws::handshake::derive_accept_key: base64(sha1(key ++ RFC 6455 GUID))
derive_accept_key(key) ==
    CASE key = "dGhlIHNhbXBsZSBub25jZQ==" -> "s3pPLMBiTxaQ9kYGzzhZRbK+xOo="
      [] key = "AQIDBAUGBwgJCgsMDQ4PEA==" -> "C/0nmHhBztSRGR1CwL6Tf4ZjwpY="

\* headers.get(UPGRADE).and_then(to_str).map(eq "websocket").unwrap_or(false)
UpgradeIsWebsocket(headers) ==
    LET h == headers_get(headers, "upgrade")
        s == IF h.some THEN to_str(h.v) ELSE None
    IN  IF s.some THEN eq_ignore_ascii_case(s.v, "websocket") ELSE FALSE

\* headers.get(CONNECTION).and_then(to_str).map(eq "Upgrade").unwrap_or(false)
ConnectionIsUpgrade(headers) ==
    LET h == headers_get(headers, "connection")
        s == IF h.some THEN to_str(h.v) ELSE None
    IN  IF s.some THEN eq_ignore_ascii_case(s.v, "Upgrade") ELSE FALSE

\* headers.get(SEC_WEBSOCKET_ACCEPT).map(|h| h == &accept_key).unwrap_or(false)
AcceptMatches(headers, key) ==
    LET accept_key == derive_accept_key(key)
        h == headers_get(headers, "sec-websocket-accept")
    IN  IF h.some THEN HeaderEq(h.v, accept_key) ELSE FALSE

\* headers.get(SEC_WEBSOCKET_PROTOCOL).map(from_str(to_str.unwrap_or("")))
\*        .unwrap_or(Err(SecWebSocketProtocolMismatch))
NegotiatedProtocol(headers) ==
    LET h == headers_get(headers, "sec-websocket-protocol")
    IN  IF h.some
        THEN LET p == SubProto_from_str(UnwrapOr(to_str(h.v), ""))
             IN  IF p.tag = "Ok" THEN p ELSE Err("SecWebSocketProtocolMismatch")
        ELSE Err("SecWebSocketProtocolMismatch")

\* mutant: the accept key is checked before the Upgrade and Connection headers
verify_response_accept_first(res, key) ==
    IF res.status # SWITCHING_PROTOCOLS THEN ProtocolSwitch(res.status)
    ELSE IF ~AcceptMatches(res.headers, key)
    THEN Err("SecWebSocketAcceptKeyMismatch")
    ELSE IF ~UpgradeIsWebsocket(res.headers)
    THEN Err("MissingUpgradeWebSocketHeader")
    ELSE IF ~ConnectionIsUpgrade(res.headers)
    THEN Err("MissingConnectionUpgradeHeader")
    ELSE NegotiatedProtocol(res.headers)

verify_response(res, key) ==
    IF res.status # SWITCHING_PROTOCOLS THEN ProtocolSwitch(res.status)
    ELSE IF ~UpgradeIsWebsocket(res.headers)
    THEN Err("MissingUpgradeWebSocketHeader")
    ELSE IF ~ConnectionIsUpgrade(res.headers)
    THEN Err("MissingConnectionUpgradeHeader")
    ELSE IF ~AcceptMatches(res.headers, key)
    THEN Err("SecWebSocketAcceptKeyMismatch")
    ELSE NegotiatedProtocol(res.headers)

\* WsStream::new
WsStream_new(stream, proto) == [state |-> "live", stream |-> stream, proto |-> proto]

\* mutant: matches!(self.proto, SubProto::V4 | SubProto::V5)
supports_closing_any(self) == self.proto \in {"V4", "V5"}

\* WsStream::supports_closing
supports_closing(self) == self.proto = "V5"

\* WsStream::into_inner: the handle is consumed, the stream is what is returned
into_inner(self) == self.stream

----------------------------------------------------------------------------
(* The arguments the calls are made with *)

\* entry names of the discovery documents, and the names looked up in them
EntryNames == {"", "/", "foo", "foo/status", "foo/status/logs"}

\* the verbs of the entry at position i of a document
VerbsAt(i) ==
    CASE i % 3 = 1 -> <<"get", "list", "Get", "connect", "get", "connect">>
      [] i % 3 = 2 -> <<"create", "watch", "delete", "deletecollection",
                        "update", "patch", "proxy">>
      [] OTHER -> <<>>

\* the APIResource at position i of a document: entries of the same name at
\* different positions differ in the other fields
EntryAt(name, i) ==
    [ name |-> name,
      namespaced |-> (i % 2 = 1),
      kind |-> "Foo",
      verbs |-> VerbsAt(i),
      group |-> IF i % 2 = 0 THEN Some("batch") ELSE None,
      version |-> IF i % 3 = 0 THEN Some("v2") ELSE None ]

\* APIResourceLists of at most MaxEntries entries, duplicates included
TreeLists ==
    UNION { { [ group_version |-> "apps/v1",
                resources |-> [i \in 1..n |-> EntryAt(names[i], i)] ]
              : names \in [1..n -> EntryNames] }
            : n \in 0..MaxEntries }

VerbTokens ==
    { "create", "get", "list", "watch", "delete", "deletecollection", "update",
      "patch", "Get", "connect", "deletecollections" }

\* most verbs of the entry of a one-entry document
MaxVerbs == 2

\* one-entry APIResourceLists with every verb sequence of at most MaxVerbs tokens
VerbLists ==
    UNION { { [ group_version |-> "v1",
                resources |-> << [ name |-> "pods", namespaced |-> TRUE,
                                   kind |-> "Pod", verbs |-> verbs,
                                   group |-> None, version |-> None ] >> ]
              : verbs \in [1..n -> VerbTokens] }
            : n \in 0..MaxVerbs }

\* the (list, name) pairs from_apiresourcelist is called with
ListCalls ==
    (TreeLists \X (EntryNames \cup {"bar"})) \cup (VerbLists \X {"pods", "bar"})

\* discovery entries and group-version strings given to from_apiresource
APIResources ==
    [ name : {"pods", "pods/status"}, namespaced : {TRUE}, kind : {"Pod"},
      verbs : {<<"get">>},
      group : {None, Some(""), Some("apps")},
      version : {None, Some("v1beta1")} ]

GroupVersions == {"", "v1", "apps/v1", "a/b/c", "/v1", "apps/", "/"}

GroupVersionKinds ==
    [ group : {"", "apps", "clux.dev"}, version : {"v1", "v1beta1"},
      kind : {"Pod", "Ingress", "NetworkPolicy", "Foo"} ]

ObjectNames == {"baz", "qux"}
Namespaces == {"default", "myns"}
JsonValues == {JsonNull, "{}", "[1,2]"}

----------------------------------------------------------------------------
(* The calls on ApiResource and DynamicObject *)

NoCall == [op |-> "none"]

Init ==
    /\ call = NoCall
    /\ resource = None
    /\ object = None
    /\ pc = "idle"
    /\ stack = <<>>
    /\ extras = None
    /\ verified = None
    /\ ws = [state |-> "none"]
    /\ wsLog = <<>>

FromApiResource ==
    /\ call = NoCall
    /\ \E ar \in APIResources, group_version \in GroupVersions :
        /\ call' = [op |-> "from_apiresource", ar |-> ar, group_version |-> group_version]
        /\ resource' = Some(from_apiresource(ar, group_version))
    /\ UNCHANGED <<object, pc, stack, extras, verified, ws, wsLog>>

FromGvk ==
    /\ call = NoCall
    /\ \E gvk \in GroupVersionKinds :
        /\ call' = [op |-> "from_gvk", gvk |-> gvk]
        /\ resource' = Some(from_gvk(gvk))
    /\ UNCHANGED <<object, pc, stack, extras, verified, ws, wsLog>>

\* erase::<DynamicObject>(&dt) on the ApiResource in hand
Erase ==
    /\ call.op \in {"from_apiresource", "from_gvk"}
    /\ resource.some
    /\ call' = [op |-> "erase", dt |-> resource.v]
    /\ resource' = Some(erase(resource.v))
    /\ UNCHANGED <<object, pc, stack, extras, verified, ws, wsLog>>

New ==
    /\ call.op \in {"from_apiresource", "from_gvk", "erase"}
    /\ resource.some
    /\ \E name \in ObjectNames :
        /\ call' = [op |-> "new", name |-> name, resource |-> resource.v, chained |-> 0]
        /\ object' = Some(DynamicObject_new(name, resource.v))
    /\ UNCHANGED <<resource, pc, stack, extras, verified, ws, wsLog>>

Data ==
    /\ call.op \in {"new", "data", "within"}
    /\ call.chained < MaxChain
    /\ object.some
    /\ \E data \in JsonValues :
        /\ call' = [op |-> "data", self |-> object.v, data |-> data,
                    chained |-> call.chained + 1]
        /\ object' = Some(DynamicObject_data(object.v, data))
    /\ UNCHANGED <<resource, pc, stack, extras, verified, ws, wsLog>>

Within ==
    /\ call.op \in {"new", "data", "within"}
    /\ call.chained < MaxChain
    /\ object.some
    /\ \E ns \in Namespaces :
        /\ call' = [op |-> "within", self |-> object.v, ns |-> ns,
                    chained |-> call.chained + 1]
        /\ object' = Some(DynamicObject_within(object.v, ns))
    /\ UNCHANGED <<resource, pc, stack, extras, verified, ws, wsLog>>

----------------------------------------------------------------------------
(* ApiResourceExtras::from_apiresourcelist, one step of its recursion at a time *)

Top == stack[Len(stack)]

\* the entry the loop of the running activation is at
LoopRes == call.list.resources[Top.i]

\* the outermost call: the lookup, then scope and operations
FromApiResourceList ==
    /\ call = NoCall
    /\ \E c \in ListCalls :
        /\ call' = [op |-> "from_apiresourcelist", list |-> c[1], name |-> c[2]]
        /\ LET list == c[1]
               name == c[2]
               ar == FindResource(list, name)
           IN  IF ar.some
               THEN pc' = "running" /\ stack' = <<Frame(name, ar.v)>>
               ELSE pc' = "panicked" /\ stack' = <<>>
    /\ UNCHANGED <<resource, object, extras, verified, ws, wsLog>>

\* for res in &list.resources: strip_prefix gives None
LoopSkip ==
    /\ pc = "running"
    /\ Top.i <= Len(call.list.resources)
    /\ ~strip_prefix(LoopRes.name, subresource_name_prefix(Top.name)).some
    /\ stack' = [stack EXCEPT ![Len(stack)].i = @ + 1]
    /\ UNCHANGED <<call, resource, object, pc, extras, verified, ws, wsLog>>

\* for res in &list.resources: strip_prefix gives Some(subresource_name); the
\* ApiResource is built and the recursive call starts with its own lookup
LoopRecurse ==
    /\ pc = "running"
    /\ Top.i <= Len(call.list.resources)
    /\ strip_prefix(LoopRes.name, subresource_name_prefix(Top.name)).some
    /\ LET subresource_name ==
               strip_prefix(LoopRes.name, subresource_name_prefix(Top.name)).v
           api_resource == SubApiResource(call.list, LoopRes, subresource_name)
           name == RecursiveName(LoopRes, subresource_name)
           ar == FindResource(call.list, name)
           waiting == [stack EXCEPT ![Len(stack)].api_resource = Some(api_resource)]
       IN  IF ar.some
           THEN pc' = pc /\ stack' = Append(waiting, Frame(name, ar.v))
           ELSE pc' = "panicked" /\ stack' = waiting
    /\ UNCHANGED <<call, resource, object, extras, verified, ws, wsLog>>

\* the loop is over: the activation returns its ApiResourceExtras, which the
\* caller pushes with the ApiResource it built, or which is the result
Return ==
    /\ pc = "running"
    /\ Top.i > Len(call.list.resources)
    /\ IF Len(stack) = 1
       THEN /\ extras' = Some(ExtrasOf(Top))
            /\ pc' = "done"
            /\ stack' = <<>>
       ELSE /\ extras' = extras
            /\ pc' = pc
            /\ stack' = [ SubSeq(stack, 1, Len(stack) - 1)
                          EXCEPT ![Len(stack) - 1] =
                            [ @ EXCEPT
                                !.subresources =
                                    Append(@, <<stack[Len(stack) - 1].api_resource.v,
                                                ExtrasOf(Top)>>),
                                !.api_resource = None,
                                !.i = @ + 1 ] ]
    /\ UNCHANGED <<call, resource, object, verified, ws, wsLog>>

NextExtras == FromApiResourceList \/ LoopSkip \/ LoopRecurse \/ Return

Next == FromApiResource \/ FromGvk \/ Erase \/ New \/ Data \/ Within \/ NextExtras

Spec == Init /\ [][Next]_vars

\* the recursion alone; a started call keeps running
SpecExtras == Init /\ [][NextExtras]_vars /\ WF_vars(NextExtras)

----------------------------------------------------------------------------
(* The calls of the WebSocket upgrade *)

\* Sec-WebSocket-Key nonces of the requests
Keys == {"dGhlIHNhbXBsZSBub25jZQ==", "AQIDBAUGBwgJCgsMDQ4PEA=="}

Statuses == {SWITCHING_PROTOCOLS, 200, 426}

UpgradeValues ==
    { None, Some(HeaderValue("websocket")), Some(HeaderValue("WebSocket")),
      Some(HeaderValue("h2c")), Some(OpaqueValue("websocket")) }

ConnectionValues ==
    { None, Some(HeaderValue("Upgrade")), Some(HeaderValue("upgrade")),
      Some(HeaderValue("keep-alive")), Some(OpaqueValue("Upgrade")) }

AcceptValues ==
    { None, Some(OpaqueValue("s3pPLMBiTxaQ9kYGzzhZRbK+xOo=")),
      Some(HeaderValue("s3pplmbitxaq9kygzzhzrbk+xoo=")) }
    \cup { Some(HeaderValue(derive_accept_key(k))) : k \in Keys }

ProtocolValues ==
    { None, Some(HeaderValue(WS_PROTOCOL_V4)), Some(HeaderValue(WS_PROTOCOL_V5)),
      Some(HeaderValue(WS_PROTOCOLS)), Some(HeaderValue("V4.CHANNEL.K8S.IO")),
      Some(HeaderValue("")), Some(OpaqueValue(WS_PROTOCOL_V5)) }

\* the responses a server may send: for each header, what HeaderMap::get finds
Responses ==
    [ status : Statuses,
      headers : { [h \in {"upgrade", "connection", "sec-websocket-accept",
                          "sec-websocket-protocol"} |->
                     CASE h = "upgrade" -> u
                       [] h = "connection" -> c
                       [] h = "sec-websocket-accept" -> a
                       [] OTHER -> p]
                  : u \in UpgradeValues, c \in ConnectionValues,
                    a \in AcceptValues, p \in ProtocolValues } ]

Streams == {"stream1", "stream2"}
SubProto == {"V4", "V5"}

VerifyResponse ==
    /\ call = NoCall
    /\ \E res \in Responses, key \in Keys :
        /\ call' = [op |-> "verify_response", res |-> res, key |-> key]
        /\ verified' = Some(verify_response(res, key))
    /\ UNCHANGED <<resource, object, pc, stack, extras, ws, wsLog>>

WsNew ==
    /\ call = NoCall
    /\ \E stream \in Streams, proto \in SubProto :
        /\ call' = [op |-> "WsStream::new", stream |-> stream, proto |-> proto]
        /\ ws' = WsStream_new(stream, proto)
        /\ wsLog' = <<[op |-> "new", stream |-> stream, proto |-> proto]>>
    /\ UNCHANGED <<resource, object, pc, stack, extras, verified>>

\* calls of supports_closing made on the handle so far
ClosingCalls == Cardinality({i \in 1..Len(wsLog) : wsLog[i].op = "supports_closing"})

SupportsClosing ==
    /\ ws.state = "live"
    /\ ClosingCalls < MaxCalls
    /\ wsLog' = Append(wsLog, [op |-> "supports_closing", ret |-> supports_closing(ws)])
    /\ UNCHANGED <<call, resource, object, pc, stack, extras, verified, ws>>

IntoInner ==
    /\ ws.state = "live"
    /\ wsLog' = Append(wsLog, [op |-> "into_inner", ret |-> into_inner(ws)])
    /\ ws' = [state |-> "moved"]
    /\ UNCHANGED <<call, resource, object, pc, stack, extras, verified>>

NextUpgrade == VerifyResponse \/ WsNew \/ SupportsClosing \/ IntoInner

SpecUpgrade == Init /\ [][NextUpgrade]_vars

----------------------------------------------------------------------------
(* Properties of verify_response and WsStream, under SpecUpgrade *)

LowerWebsocket == "websocket"
LowerUpgrade == "upgrade"

\* what the five checks ask of a response, stated on the response itself
StatusSwitches(res) == res.status = 101

HeaderIs(res, name, lower) ==
    /\ res.headers[name].some
    /\ ~res.headers[name].v.opaque
    /\ to_ascii_lowercase(res.headers[name].v.text) = lower

AcceptIsDerived(res, key) ==
    res.headers["sec-websocket-accept"] = Some(HeaderValue(derive_accept_key(key)))

ProtocolIsKnown(res) ==
    res.headers["sec-websocket-protocol"]
        \in { Some(HeaderValue("v4.channel.k8s.io")), Some(HeaderValue("v5.channel.k8s.io")) }

\* C1: verify_response(res, key) returns Ok(p) if and only if the status is 101,
\* Upgrade is "websocket" and Connection is "Upgrade" ignoring ASCII case,
\* Sec-WebSocket-Accept is byte-exactly the accept key derived from key, and
\* Sec-WebSocket-Protocol is exactly one of the two subprotocol tokens; p is V4
\* for the v4 token and V5 for the v5 token.
C1_OkIffFiveConditions ==
    call.op = "verify_response" =>
        LET res == call.res
            out == verified.v
        IN  /\ (out.tag = "Ok") <=>
                    /\ StatusSwitches(res)
                    /\ HeaderIs(res, "upgrade", LowerWebsocket)
                    /\ HeaderIs(res, "connection", LowerUpgrade)
                    /\ AcceptIsDerived(res, call.key)
                    /\ ProtocolIsKnown(res)
            /\ out.tag = "Ok" =>
                    out.v = IF res.headers["sec-websocket-protocol"].v.text
                                = "v4.channel.k8s.io"
                            THEN "V4" ELSE "V5"

\* a mixed-case Upgrade value and the v5 token: Ok(V5)
C1_Witness ==
    /\ call.op = "verify_response"
    /\ call.res.headers["upgrade"] = Some(HeaderValue("WebSocket"))
    /\ call.res.headers["connection"] = Some(HeaderValue("upgrade"))
    /\ verified = Some(Ok("V5"))

\* C2: the checks run in the order status, Upgrade, Connection,
\* Sec-WebSocket-Accept, Sec-WebSocket-Protocol, and the error returned is the
\* one of the first check that fails, whatever the later headers hold:
\* ProtocolSwitch(actual status), MissingUpgradeWebSocketHeader,
\* MissingConnectionUpgradeHeader, SecWebSocketAcceptKeyMismatch,
\* SecWebSocketProtocolMismatch, five distinct kinds.
C2_ErrorOfFirstFailingCheck ==
    call.op = "verify_response" =>
        LET res == call.res
            out == verified.v
        IN  IF ~StatusSwitches(res)
            THEN out = [tag |-> "Err", kind |-> "ProtocolSwitch", status |-> res.status]
            ELSE IF ~HeaderIs(res, "upgrade", LowerWebsocket)
            THEN out = [tag |-> "Err", kind |-> "MissingUpgradeWebSocketHeader"]
            ELSE IF ~HeaderIs(res, "connection", LowerUpgrade)
            THEN out = [tag |-> "Err", kind |-> "MissingConnectionUpgradeHeader"]
            ELSE IF ~AcceptIsDerived(res, call.key)
            THEN out = [tag |-> "Err", kind |-> "SecWebSocketAcceptKeyMismatch"]
            ELSE IF ~ProtocolIsKnown(res)
            THEN out = [tag |-> "Err", kind |-> "SecWebSocketProtocolMismatch"]
            ELSE out.tag = "Ok"

\* Connection is wrong, and so are the two headers checked after it: the error
\* is the Connection one
C2_Witness ==
    /\ call.op = "verify_response"
    /\ StatusSwitches(call.res)
    /\ HeaderIs(call.res, "upgrade", LowerWebsocket)
    /\ call.res.headers["connection"] = Some(HeaderValue("keep-alive"))
    /\ call.res.headers["sec-websocket-accept"] = None
    /\ call.res.headers["sec-websocket-protocol"] = Some(HeaderValue(""))
    /\ verified = Some([tag |-> "Err", kind |-> "MissingConnectionUpgradeHeader"])

\* C8: on a WsStream built by WsStream::new(stream, proto), every call of
\* supports_closing returns true if and only if proto was V5, and no operation
\* changes the tag the live handle holds.
C8_SupportsClosingIffV5 ==
    /\ \A i \in 1..Len(wsLog) :
            wsLog[i].op = "supports_closing" =>
                (wsLog[i].ret <=> (wsLog[1].proto = "V5"))
    /\ ws.state = "live" => ws.proto = wsLog[1].proto

\* two calls on a V4 handle, then the handle is consumed
C8_Witness ==
    /\ ws.state = "moved"
    /\ wsLog[1].proto = "V4"
    /\ ClosingCalls = 2

----------------------------------------------------------------------------
(* Properties of ApiResource and DynamicObject, under Spec *)

HasChar(s, c) == \E i \in 1..Len(s) : CharAt(s, i) = c

Substrings(s) == { SubSeq(s, a, b) : a \in 1..(Len(s) + 1), b \in 0..Len(s) }

\* api_version is version for the empty group, group "/" version otherwise
ApiVersionIsDerived(r) ==
    r.api_version = IF r.group = "" THEN r.version ELSE r.group \o "/" \o r.version

\* every ApiResource stored in a subresource tree
RECURSIVE TreeResources(_)
TreeResources(subresources) ==
    UNION { {subresources[i][1]} \cup TreeResources(subresources[i][2].subresources)
            : i \in 1..Len(subresources) }

\* the ApiResources held by the running activations
StackResources ==
    UNION { TreeResources(stack[k].subresources)
                \cup (IF stack[k].api_resource.some
                      THEN {stack[k].api_resource.v} ELSE {})
            : k \in 1..Len(stack) }

C5_FromApiResourceSplit ==
    call.op = "from_apiresource" =>
        LET gv == call.group_version
            ar == call.ar
            r == resource.v
        IN  /\ r # Unreachable
            /\ \E dg \in Substrings(gv) \cup {""}, dv \in Substrings(gv) \cup {""} :
                /\ IF HasChar(gv, "/")
                   THEN (dg \o "/" \o dv) = gv /\ ~HasChar(dg, "/")
                   ELSE dg = "" /\ dv = gv
                /\ r.group = IF ar.group.some THEN ar.group.v ELSE dg
                /\ r.version = IF ar.version.some THEN ar.version.v ELSE dv
            /\ r.plural = ar.name

\* several '/': the rest after the first one is the version; the group is overridden
C5_Witness ==
    /\ call.op = "from_apiresource"
    /\ call.group_version = "a/b/c"
    /\ call.ar.group = Some("")
    /\ call.ar.version = None
    /\ resource.v.group = ""
    /\ resource.v.version = "b/c"

\* C9: DynamicObject::new(name, resource) has the type-tag (resource.api_version,
\* resource.kind), metadata with only name set, and an empty payload; data(v)
\* replaces only the payload, within(ns) sets only metadata.namespace, and the
\* two commute.
C9_NewDataWithin ==
    /\ call.op = "new" =>
        /\ object.v.types = Some([ api_version |-> call.resource.api_version,
                                   kind |-> call.resource.kind ])
        /\ object.v.metadata.name = Some(call.name)
        /\ \A f \in DOMAIN object.v.metadata \ {"name"} : object.v.metadata[f] = None
        /\ object.v.data = "null"
    /\ call.op = "data" =>
        /\ object.v.data = call.data
        /\ object.v.types = call.self.types
        /\ object.v.metadata = call.self.metadata
    /\ call.op = "within" =>
        /\ object.v.metadata.namespace = Some(call.ns)
        /\ \A f \in DOMAIN object.v.metadata \ {"namespace"} :
                object.v.metadata[f] = call.self.metadata[f]
        /\ object.v.types = call.self.types
        /\ object.v.data = call.self.data
    /\ object.some =>
        \A v \in JsonValues, ns \in Namespaces :
            DynamicObject_within(DynamicObject_data(object.v, v), ns)
                = DynamicObject_data(DynamicObject_within(object.v, ns), v)

\* data then within: name, type-tag and payload are kept
C9_Witness ==
    /\ call.op = "within"
    /\ call.chained = 2
    /\ call.self.data = "{}"
    /\ object.v.data = "{}"
    /\ object.v.metadata.name = Some("baz")
    /\ object.v.metadata.namespace = Some("myns")

----------------------------------------------------------------------------
(* Properties of ApiResourceExtras::from_apiresourcelist *)

KnownVerbs ==
    {"create", "get", "list", "watch", "delete", "deletecollection", "update", "patch"}

IsOtherVerb(v) == v \notin KnownVerbs

InSeq(x, seq) == \E i \in 1..Len(seq) : seq[i] = x

\* the first entry of the list with the name
FirstNamed(list, name) ==
    list.resources[CHOOSE i \in 1..Len(list.resources) :
                        /\ list.resources[i].name = name
                        /\ \A j \in 1..(i - 1) : list.resources[j].name # name]

NamePresent(list, name) == \E i \in 1..Len(list.resources) : list.resources[i].name = name

\* C6: for the entry selected, each of the eight flags is true iff the entry's
\* verbs hold its exact token, and operations.other is the subsequence of the
\* verbs that are none of the eight tokens, in order, repetitions kept.
C6_VerbFlags ==
    pc = "done" =>
        LET verbs == FirstNamed(call.list, call.name).verbs
            ops == extras.v.operations
        IN  /\ ops.create <=> InSeq("create", verbs)
            /\ ops.get <=> InSeq("get", verbs)
            /\ ops.list <=> InSeq("list", verbs)
            /\ ops.watch <=> InSeq("watch", verbs)
            /\ ops.delete <=> InSeq("delete", verbs)
            /\ ops.delete_collection <=> InSeq("deletecollection", verbs)
            /\ ops.update <=> InSeq("update", verbs)
            /\ ops.patch <=> InSeq("patch", verbs)
            /\ ops.other = SelectSeq(verbs, IsOtherVerb)

\* a token in another case and a repeated unknown token, beside known ones
C6_Witness ==
    /\ pc = "done"
    /\ extras.v.operations.other = <<"Get", "connect", "connect">>
    /\ extras.v.operations.get
    /\ ~extras.v.operations.delete

\* C7: from_apiresourcelist(list, name) panics if and only if the list has no
\* entry named name; with the name present no recursive lookup panics.
C7_PanicsIffAbsent ==
    call.op = "from_apiresourcelist" =>
        ((pc = "panicked") <=> ~NamePresent(call.list, call.name))

\* two recursive lookups deep, none of which panicked
C7_Witness ==
    /\ pc = "running"
    /\ Len(stack) = 3
    /\ stack[3].name = "foo/status/logs"

\* the local name of entry e when it is "<name>/<local>" with no '/' in local
IsDirectChild(e, name) ==
    /\ strip_prefix(e.name, name \o "/").some
    /\ ~HasChar(strip_prefix(e.name, name \o "/").v, "/")

DirectChildren(list, name) ==
    LET IsChild(e) == IsDirectChild(e, name)
        children == SelectSeq(list.resources, IsChild)
    IN  [i \in 1..Len(children) |-> strip_prefix(children[i].name, name \o "/").v]

\* C3: the direct subresources of the target are exactly the entries named
\* "<target>/<local>" with no further '/' in local; deeper entries appear only
\* under their own parent.
C3_DirectSubresourcesOnly ==
    pc = "done" =>
        [i \in 1..Len(extras.v.subresources) |-> extras.v.subresources[i][1].plural]
            = DirectChildren(call.list, call.name)

LongestName(list) ==
    IF list.resources = <<>> THEN 0
    ELSE CHOOSE n \in {Len(list.resources[i].name) : i \in 1..Len(list.resources)} :
            \A i \in 1..Len(list.resources) : Len(list.resources[i].name) <= n

\* every activation was called with a name strictly longer than its caller's
NamesGrow ==
    /\ \A k \in 2..Len(stack) : Len(stack[k].name) > Len(stack[k - 1].name)
    /\ pc = "running" => Len(stack) <= LongestName(call.list) + 1

\* C10: with the target present the recursion terminates: every recursive call
\* has a name strictly longer than its caller's, so the depth is bounded by the
\* longest entry name.
C10_RecursionTerminates ==
    /\ []NamesGrow
    /\ (pc = "running") ~> (pc = "done")

\* an empty target name, with a subresource named "/"
C10_Witness ==
    /\ pc = "done"
    /\ call.name = ""
    /\ Len(extras.v.subresources) >= 1

====
